---- MODULE Spec2Model ----
(***************************************************************************)
(* A model of cache_model.py: a chain of FIFO CacheModel levels in front   *)
(* of a RamModel, its construction, the convergence estimator `mean`, the  *)
(* random and the directed strided address generators, and the sweep over  *)
(* strides of run_strided_experiments.  Penalties per access are exact     *)
(* fractions <<numerator, denominator>>.                                   *)
(***************************************************************************)
EXTENDS Integers, Sequences, FiniteSets, TLC

(* ---------------------------------------------------------------------- *)
(* Bounds of the model                                                     *)
(* ---------------------------------------------------------------------- *)

\* depths of the chain of CacheModel levels built in front of the RamModel
Depths == {1, 2}
\* largest n_lines of a CacheModel
MaxLines == 2
\* line_size values a CacheModel is built with
LineSizes == {1, 2}
\* byte addresses are 0..MaxAddress
MaxAddress == 2
\* longest sequence of perform_access calls on the root
MaxAccesses == 4

\* hit_penalty values a CacheModel is built with
HitPenalties == {0, 1}
\* access_penalty values the RamModel is built with
AccessPenalties == {1, 100}

Addresses == 0..MaxAddress

\* longest trial stream handed to mean (max_retries of run_strided_experiment)
MaxTrials == 5
\* largest n_expected_successes mean is called with (its default is 3)
MaxExpected == 3
\* the values a trial yields
TrialValues == {0, 7, 8}
\* the tolerances eps mean is called with, as <<numerator, denominator>>
EpsValues == {<<1, 1000>>, <<1, 1>>, <<7, 1>>, <<8, 1>>}

\* ARRAY_SIZE, scaled down from 2 * GB
ARRAY_SIZE == 8
\* MAX_ADDRESSES, scaled down from 1_000_000
MAX_ADDRESSES == 6
\* largest stride the address generator is called with
MaxStride == 4
\* most random draws followed in one call of the address generator
MaxDraws == 4

\* largest min_stride run_strided_experiments is called with
MaxMinStride == 2
\* largest max_stride run_strided_experiments is called with
MaxSweepStride == 8
\* largest max_retries run_strided_experiments is called with
MaxSweepRetries == 4
\* most trials one run of run_strided_experiments can make, over all its stages
MaxSweepTrials == 6
\* the lengths of the address sequences generate_addresses returns to a trial
SweepLengths == {0, 1, 2}
\* n_expected_successes of the call mean(get_penalties(), eps=1): the default
DefaultExpectedSuccesses == 3
\* eps of the call mean(get_penalties(), eps=1)
SweepEps == <<1, 1>>

(* ---------------------------------------------------------------------- *)
(* State                                                                   *)
(* ---------------------------------------------------------------------- *)

VARIABLES
    caches,     \* the chain of CacheModel objects, root first
    ram,        \* the RamModel ending the chain
    addresses,  \* the addresses perform_access was called with on the root, in order
    eps,                    \* mean's tolerance, <<numerator, denominator>>
    n_expected_successes,   \* mean's required number of consecutive successes
    max_retries,            \* the number of trials the stream `data` yields before it ends
    data,                   \* the values mean has taken from the stream, in order
    locals,                 \* mean's local variables n, sum, mean, n_successes
    mean_pc,                \* "loop", "converged", "exhausted" or "failed"
    returned,               \* the value mean returned, <<numerator, denominator>>
    stride,                 \* the stride generate_random_strided_addresses is called with
    result_set,             \* its local result_set
    result,                 \* its local result
    gen_pc,                 \* "loop" or "done"
    gen_i,                  \* generate_directed_strided_addresses: passes of its loop begun
    base_addr,              \* its local base_addr
    ctor_pc,                \* building a chain: "building", "failed" or "ready"
    ctor_args,              \* the arguments of the last CacheModel(...) call, <<>> before it
    min_stride,             \* run_strided_experiments: its argument min_stride
    max_stride,             \* its argument max_stride
    make_memory_model,      \* its argument: the hierarchy each call of the factory builds
    strides,                \* its local strides
    index,                  \* the stages finished (index of enumerate)
    results,                \* its local results
    trial,                  \* get_penalties: passes of `for _ in range(max_retries)` begun
    sweep_pc,               \* "stage", "pull", "trial", "done" or "error"
    raised                  \* the exception that ended the run, "none" without one

cacheVars == <<caches, ram, addresses>>

meanVars == <<eps, n_expected_successes, max_retries, data, locals, mean_pc, returned>>

genVars == <<stride, result_set, result, gen_pc>>

dirVars == <<gen_i, base_addr>>

buildVars == <<ctor_pc, ctor_args>>

sweepVars ==
    <<min_stride, max_stride, make_memory_model, strides, index, results, trial,
      sweep_pc, raised>>

vars == <<cacheVars, meanVars, genVars, dirVars, buildVars, sweepVars>>

(* ---------------------------------------------------------------------- *)
(* RamModel                                                                *)
(* ---------------------------------------------------------------------- *)

\* RamModel.__init__; `received` is history: the addresses perform_access was
\* called with on this object, in order
RamModel(access_penalty) ==
    [access_penalty |-> access_penalty, total_penalty |-> 0, received |-> <<>>]

\* a RamModel whose perform_access assigns instead of accumulating
MutRamPerformAccessAssign(r, address) ==
    [r EXCEPT !.total_penalty = r.access_penalty,
              !.received = Append(r.received, address)]

\* RamModel.perform_access: the address is ignored
RamPerformAccess(r, address) ==
    [r EXCEPT !.total_penalty = r.total_penalty + r.access_penalty,
              !.received = Append(r.received, address)]

\* RamModel.get_total_penalty
RamGetTotalPenalty(r) == r.total_penalty

(* ---------------------------------------------------------------------- *)
(* CacheModel                                                              *)
(* A hierarchy h is [caches |-> sequence of CacheModel, ram |-> RamModel]; *)
(* next_memory of caches[i] is caches[i+1], and ram for the last one.      *)
(* ---------------------------------------------------------------------- *)

\* CacheModel.__init__ (both assertions passed); `received` and `hits` are
\* history: the addresses perform_access was called with on this object, and
\* the number of times _increment_penalties took its hit branch
CacheModel(n_lines, line_size, hit_penalty) ==
    [n_lines |-> n_lines, line_size |-> line_size, hit_penalty |-> hit_penalty,
     cached_lines_queue |-> <<>>, cached_lines_set |-> {}, total_penalty |-> 0,
     received |-> <<>>, hits |-> 0]

\* a constructor that asserts n_lines only
MutNewCacheModelNoLineSizeAssert(n_lines, line_size, hit_penalty) ==
    IF n_lines = 0
    THEN [raised |-> "AssertionError"]
    ELSE [raised |-> "none", object |-> CacheModel(n_lines, line_size, hit_penalty)]

\* CacheModel(n_lines, line_size, hit_penalty, next_memory): `assert n_lines`,
\* `assert line_size`, then the object
NewCacheModel(n_lines, line_size, hit_penalty) ==
    IF n_lines = 0
    THEN [raised |-> "AssertionError"]
    ELSE IF line_size = 0
         THEN [raised |-> "AssertionError"]
         ELSE [raised |-> "none", object |-> CacheModel(n_lines, line_size, hit_penalty)]

\* a line id that is the byte address itself
MutLineIdIsAddress(c, address) == address

\* line_id = address // self.line_size
LineId(c, address) == address \div c.line_size

RECURSIVE PerformAccess(_, _, _)

\* _increment_penalties that subtracts the hit penalty
MutIncrementPenaltiesSubtract(h, i, line_id, address) ==
    IF line_id \in h.caches[i].cached_lines_set
    THEN [h EXCEPT !.caches[i].total_penalty = @ - h.caches[i].hit_penalty,
                   !.caches[i].hits = @ + 1]
    ELSE IF i = Len(h.caches)
         THEN [h EXCEPT !.ram = RamPerformAccess(h.ram, address)]
         ELSE PerformAccess(h, i + 1, address)

\* _increment_penalties that hands line_id, not address, to next_memory
MutIncrementPenaltiesForwardLine(h, i, line_id, address) ==
    IF line_id \in h.caches[i].cached_lines_set
    THEN [h EXCEPT !.caches[i].total_penalty = @ + h.caches[i].hit_penalty,
                   !.caches[i].hits = @ + 1]
    ELSE IF i = Len(h.caches)
         THEN [h EXCEPT !.ram = RamPerformAccess(h.ram, line_id)]
         ELSE PerformAccess(h, i + 1, line_id)

\* _increment_penalties that accesses next_memory on a hit too
MutIncrementPenaltiesAlwaysForward(h, i, line_id, address) ==
    LET h1 == IF line_id \in h.caches[i].cached_lines_set
              THEN [h EXCEPT !.caches[i].total_penalty = @ + h.caches[i].hit_penalty,
                             !.caches[i].hits = @ + 1]
              ELSE h
    IN IF i = Len(h.caches)
       THEN [h1 EXCEPT !.ram = RamPerformAccess(h1.ram, address)]
       ELSE PerformAccess(h1, i + 1, address)

\* CacheModel._increment_penalties on level i
IncrementPenalties(h, i, line_id, address) ==
    IF line_id \in h.caches[i].cached_lines_set
    THEN [h EXCEPT !.caches[i].total_penalty = @ + h.caches[i].hit_penalty,
                   !.caches[i].hits = @ + 1]
    ELSE IF i = Len(h.caches)
         THEN [h EXCEPT !.ram = RamPerformAccess(h.ram, address)]
         ELSE PerformAccess(h, i + 1, address)

\* _add_to_cache that never evicts
MutAddToCacheNoEvict(c, line_id) ==
    IF line_id \in c.cached_lines_set
    THEN c
    ELSE [c EXCEPT !.cached_lines_queue = Append(c.cached_lines_queue, line_id),
                   !.cached_lines_set = c.cached_lines_set \cup {line_id}]

\* _add_to_cache that moves a line that is hit to the back of the queue (LRU)
MutAddToCacheRefresh(c, line_id) ==
    LET without == SelectSeq(c.cached_lines_queue, LAMBDA l : l # line_id)
        full == Len(without) = c.n_lines
        queue == IF full THEN Tail(without) ELSE without
    IN [c EXCEPT !.cached_lines_queue = Append(queue, line_id),
                 !.cached_lines_set = {queue[j] : j \in DOMAIN queue} \cup {line_id}]

\* _add_to_cache that evicts the newest line (pop() for pop(0))
MutAddToCacheEvictNewest(c, line_id) ==
    IF line_id \in c.cached_lines_set
    THEN c
    ELSE LET full == Len(c.cached_lines_queue) = c.n_lines
             q == c.cached_lines_queue
             line_to_remove == q[Len(q)]
             queue == IF full THEN SubSeq(q, 1, Len(q) - 1) ELSE q
             set == IF full THEN c.cached_lines_set \ {line_to_remove}
                            ELSE c.cached_lines_set
         IN [c EXCEPT !.cached_lines_queue = Append(queue, line_id),
                      !.cached_lines_set = set \cup {line_id}]

\* CacheModel._add_to_cache
AddToCache(c, line_id) ==
    IF line_id \in c.cached_lines_set
    THEN c
    ELSE LET full == Len(c.cached_lines_queue) = c.n_lines
             line_to_remove == Head(c.cached_lines_queue)
             queue == IF full THEN Tail(c.cached_lines_queue) ELSE c.cached_lines_queue
             set == IF full THEN c.cached_lines_set \ {line_to_remove}
                            ELSE c.cached_lines_set
         IN [c EXCEPT !.cached_lines_queue = Append(queue, line_id),
                      !.cached_lines_set = set \cup {line_id}]

\* CacheModel.perform_access on level i
PerformAccess(h, i, address) ==
    LET called == [h EXCEPT !.caches[i].received = Append(@, address)]
        line_id == LineId(called.caches[i], address)
        h1 == IncrementPenalties(called, i, line_id, address)
    IN [h1 EXCEPT !.caches[i] = AddToCache(h1.caches[i], line_id)]

RECURSIVE GetTotalPenalty(_, _)

\* get_total_penalty that leaves out the level's own penalty
MutGetTotalPenaltyBelowOnly(h, i) ==
    IF i = Len(h.caches) THEN RamGetTotalPenalty(h.ram) ELSE GetTotalPenalty(h, i + 1)

\* CacheModel.get_total_penalty on level i
GetTotalPenalty(h, i) ==
    LET next_memory_penalty == IF i = Len(h.caches)
                               THEN RamGetTotalPenalty(h.ram)
                               ELSE GetTotalPenalty(h, i + 1)
        my_penalty == h.caches[i].total_penalty
    IN next_memory_penalty + my_penalty

RECURSIVE PerformAccesses(_, _)

\* perform_accesses(model, addresses) on the root; yields <<hierarchy, returned total>>
PerformAccesses(h, addrs) ==
    IF addrs = <<>>
    THEN <<h, GetTotalPenalty(h, 1)>>
    ELSE CHOOSE total \in {PerformAccesses(model, Tail(addrs)) :
                              model \in {PerformAccess(h, 1, Head(addrs))}} : TRUE

(* ---------------------------------------------------------------------- *)
(* The hierarchy under a sequence of accesses                              *)
(* ---------------------------------------------------------------------- *)

CacheConfigs ==
    {CacheModel(n, s, p) : n \in 1..MaxLines, s \in LineSizes, p \in HitPenalties}

Hierarchy == [caches |-> caches, ram |-> ram]

\* a freshly constructed chain of caches over a RamModel
InitCache ==
    /\ \E d \in Depths : caches \in [1..d -> CacheConfigs]
    /\ \E p \in AccessPenalties : ram = RamModel(p)
    /\ addresses = <<>>

\* one call of perform_access on the root
Access(address) ==
    /\ Len(addresses) < MaxAccesses
    /\ LET h == PerformAccess(Hierarchy, 1, address)
       IN /\ caches' = h.caches
          /\ ram' = h.ram
    /\ addresses' = Append(addresses, address)

(* ---------------------------------------------------------------------- *)
(* mean: the convergence estimator                                         *)
(* Numbers that Python divides are kept as fractions <<numerator,          *)
(* denominator>> with a positive denominator.                              *)
(* ---------------------------------------------------------------------- *)

Abs(x) == IF x < 0 THEN -x ELSE x

RatLess(a, b) == a[1] * b[2] < b[1] * a[2]

RatEq(a, b) == a[1] * b[2] = b[1] * a[2]

\* the greatest common divisor of two naturals, not both 0
RECURSIVE Gcd(_, _)

Gcd(a, b) == IF b = 0 THEN a ELSE Gcd(b, a % b)

\* a + b, in lowest terms
RatAdd(a, b) ==
    LET num == a[1] * b[2] + b[1] * a[2]
        den == a[2] * b[2]
        g == Gcd(Abs(num), den)
    IN <<num \div g, den \div g>>

\* abs(a - b)
RatAbsDiff(a, b) == <<Abs(a[1] * b[2] - b[1] * a[2]), a[2] * b[2]>>

\* the locals of mean before its loop (lines 95-98)
MeanLocals == [n |-> 0, sum |-> <<0, 1>>, mean |-> <<0, 1>>, n_successes |-> 0]

\* a loop body that returns only once n_successes exceeds n_expected_successes
MutMeanBodyOneMore(l, x, e, k) ==
    LET sum == RatAdd(l.sum, x)
        n == l.n + 1
        cur_mean == <<sum[1], sum[2] * n>>
        error == RatAbsDiff(l.mean, cur_mean)
    IN IF RatLess(error, e)
       THEN IF l.n_successes + 1 <= k
            THEN [pc |-> "loop", returned |-> <<0, 1>>,
                  locals |-> [n |-> n, sum |-> sum, mean |-> cur_mean,
                              n_successes |-> l.n_successes + 1]]
            ELSE [pc |-> "converged", returned |-> cur_mean,
                  locals |-> [n |-> n, sum |-> sum, mean |-> l.mean,
                              n_successes |-> l.n_successes + 1]]
       ELSE [pc |-> "loop", returned |-> <<0, 1>>,
             locals |-> [n |-> n, sum |-> sum, mean |-> cur_mean, n_successes |-> 0]]

\* a loop body that stores cur_mean in mean only when the error is not below eps
MutMeanBodyStaleMean(l, x, e, k) ==
    LET sum == RatAdd(l.sum, x)
        n == l.n + 1
        cur_mean == <<sum[1], sum[2] * n>>
        error == RatAbsDiff(l.mean, cur_mean)
    IN IF RatLess(error, e)
       THEN IF l.n_successes + 1 < k
            THEN [pc |-> "loop", returned |-> <<0, 1>>,
                  locals |-> [n |-> n, sum |-> sum, mean |-> l.mean,
                              n_successes |-> l.n_successes + 1]]
            ELSE [pc |-> "converged", returned |-> cur_mean,
                  locals |-> [n |-> n, sum |-> sum, mean |-> l.mean,
                              n_successes |-> l.n_successes + 1]]
       ELSE [pc |-> "loop", returned |-> <<0, 1>>,
             locals |-> [n |-> n, sum |-> sum, mean |-> cur_mean, n_successes |-> 0]]

\* a loop body that does not reset n_successes when the error is not below eps
MutMeanBodyNoReset(l, x, e, k) ==
    LET sum == RatAdd(l.sum, x)
        n == l.n + 1
        cur_mean == <<sum[1], sum[2] * n>>
        error == RatAbsDiff(l.mean, cur_mean)
    IN IF RatLess(error, e)
       THEN IF l.n_successes + 1 < k
            THEN [pc |-> "loop", returned |-> <<0, 1>>,
                  locals |-> [n |-> n, sum |-> sum, mean |-> cur_mean,
                              n_successes |-> l.n_successes + 1]]
            ELSE [pc |-> "converged", returned |-> cur_mean,
                  locals |-> [n |-> n, sum |-> sum, mean |-> l.mean,
                              n_successes |-> l.n_successes + 1]]
       ELSE [pc |-> "loop", returned |-> <<0, 1>>,
             locals |-> [n |-> n, sum |-> sum, mean |-> cur_mean,
                         n_successes |-> l.n_successes]]

\* one pass of mean's loop body with the locals l, for the value x, a fraction
\* (lines 100-114)
MeanBody(l, x, e, k) ==
    LET sum == RatAdd(l.sum, x)
        n == l.n + 1
        cur_mean == <<sum[1], sum[2] * n>>
        error == RatAbsDiff(l.mean, cur_mean)
    IN IF RatLess(error, e)
       THEN IF l.n_successes + 1 < k
            THEN [pc |-> "loop", returned |-> <<0, 1>>,
                  locals |-> [n |-> n, sum |-> sum, mean |-> cur_mean,
                              n_successes |-> l.n_successes + 1]]
            ELSE [pc |-> "converged", returned |-> cur_mean,
                  locals |-> [n |-> n, sum |-> sum, mean |-> l.mean,
                              n_successes |-> l.n_successes + 1]]
       ELSE [pc |-> "loop", returned |-> <<0, 1>>,
             locals |-> [n |-> n, sum |-> sum, mean |-> cur_mean, n_successes |-> 0]]

\* a call of mean(data, eps, n_expected_successes) on a stream of max_retries values
InitMean ==
    /\ eps \in EpsValues
    /\ n_expected_successes \in 1..MaxExpected
    /\ max_retries \in 0..MaxTrials
    /\ data = <<>>
    /\ locals = MeanLocals
    /\ mean_pc = "loop"
    /\ returned = <<0, 1>>

\* the stream yields x and the loop body runs
MeanIterate(x) ==
    /\ mean_pc = "loop"
    /\ Len(data) < max_retries
    /\ data' = Append(data, x)
    /\ LET after == MeanBody(locals, <<x, 1>>, eps, n_expected_successes)
       IN /\ locals' = after.locals
          /\ mean_pc' = after.pc
          /\ returned' = after.returned
    /\ UNCHANGED <<eps, n_expected_successes, max_retries>>

\* an end of stream that asserts n_successes instead of n
MutMeanExhaustedAssertSuccesses ==
    /\ mean_pc = "loop"
    /\ Len(data) = max_retries
    /\ IF locals.n_successes = 0
       THEN mean_pc' = "failed" /\ returned' = returned
       ELSE mean_pc' = "exhausted" /\ returned' = locals.mean
    /\ UNCHANGED <<eps, n_expected_successes, max_retries, data, locals>>

\* the stream has ended: assert n, "no data"; return mean (lines 115-116)
MeanExhausted ==
    /\ mean_pc = "loop"
    /\ Len(data) = max_retries
    /\ IF locals.n = 0
       THEN mean_pc' = "failed" /\ returned' = returned
       ELSE mean_pc' = "exhausted" /\ returned' = locals.mean
    /\ UNCHANGED <<eps, n_expected_successes, max_retries, data, locals>>

(* ---------------------------------------------------------------------- *)
(* generate_random_strided_addresses                                       *)
(* ---------------------------------------------------------------------- *)

\* len(range(0, ARRAY_SIZE, s))
RangeLen(s) == (ARRAY_SIZE + s - 1) \div s

\* the values random.randrange(0, ARRAY_SIZE, s) can return
RandRange(s) == {k * s : k \in 0..(RangeLen(s) - 1)}

\* n_addresses = min([MAX_ADDRESSES, n_strided_addresses])
NAddresses(s) == IF MAX_ADDRESSES < RangeLen(s) THEN MAX_ADDRESSES ELSE RangeLen(s)

\* a call of generate_random_strided_addresses(stride), before its loop
InitGen ==
    /\ stride \in 1..MaxStride
    /\ result_set = {}
    /\ result = <<>>
    /\ gen_pc = "loop"

\* one pass of the while loop, random.randrange returning n (lines 199-202)
GenDraw(n) ==
    /\ gen_pc = "loop"
    /\ Cardinality(result_set) < NAddresses(stride)
    /\ Len(result) < MaxDraws
    /\ result_set' = result_set \cup {n}
    /\ result' = Append(result, n)
    /\ UNCHANGED <<stride, gen_pc>>

\* the while condition fails: return result (line 203)
GenReturn ==
    /\ gen_pc = "loop"
    /\ ~(Cardinality(result_set) < NAddresses(stride))
    /\ gen_pc' = "done"
    /\ UNCHANGED <<stride, result_set, result>>

(* ---------------------------------------------------------------------- *)
(* Building a chain of caches, as create_memory_models does: the RamModel  *)
(* first, then each CacheModel in front of what was built before it.       *)
(* ---------------------------------------------------------------------- *)

InitBuild ==
    /\ caches = <<>>
    /\ \E p \in AccessPenalties : ram = RamModel(p)
    /\ addresses = <<>>
    /\ ctor_pc = "building"
    /\ ctor_args = <<>>

\* one call CacheModel(n_lines, line_size, hit_penalty, next_memory=<the chain so far>)
Construct(n_lines, line_size, hit_penalty) ==
    /\ ctor_pc = "building"
    /\ \E d \in Depths : Len(caches) < d
    /\ ctor_args' = <<n_lines, line_size, hit_penalty>>
    /\ LET new == NewCacheModel(n_lines, line_size, hit_penalty)
       IN IF new.raised = "AssertionError"
          THEN ctor_pc' = "failed" /\ caches' = caches
          ELSE ctor_pc' = ctor_pc /\ caches' = <<new.object>> \o caches
    /\ UNCHANGED <<ram, addresses>>

\* the chain is complete and handed to its user
BuildDone ==
    /\ ctor_pc = "building"
    /\ Len(caches) \in Depths
    /\ ctor_pc' = "ready"
    /\ UNCHANGED <<caches, ram, addresses, ctor_args>>

\* perform_access on the root of a chain that was built
BuiltAccess(address) ==
    /\ ctor_pc = "ready"
    /\ Access(address)
    /\ UNCHANGED <<ctor_pc, ctor_args>>

(* ---------------------------------------------------------------------- *)
(* generate_directed_strided_addresses                                      *)
(* The generator is consumed by list(): result is the list built so far.   *)
(* ---------------------------------------------------------------------- *)

\* a loop count that does not halve MAX_ADDRESSES
MutDirectedCountNoHalving(s) ==
    IF MAX_ADDRESSES < RangeLen(s) THEN MAX_ADDRESSES ELSE RangeLen(s)

\* n_addresses = min([MAX_ADDRESSES // 2, n_strided_addresses])
DirectedCount(s) ==
    IF MAX_ADDRESSES \div 2 < RangeLen(s) THEN MAX_ADDRESSES \div 2 ELSE RangeLen(s)

\* a call of generate_directed_strided_addresses(stride), before its loop
InitDirected ==
    /\ stride \in 1..MaxStride
    /\ result_set = {}
    /\ result = <<>>
    /\ gen_pc = "draw"
    /\ gen_i = 0
    /\ base_addr = 0

\* a pass of the loop begins: random.randrange returns b, and b is yielded
\* (lines 209-211)
DirectedDraw(b) ==
    /\ gen_pc = "draw"
    /\ gen_i < DirectedCount(stride)
    /\ gen_i' = gen_i + 1
    /\ base_addr' = b
    /\ result' = Append(result, b)
    /\ gen_pc' = "second"
    /\ UNCHANGED <<stride, result_set>>

\* the pass ends: base_addr + stride is yielded (line 212)
DirectedSecond ==
    /\ gen_pc = "second"
    /\ result' = Append(result, base_addr + stride)
    /\ gen_pc' = "draw"
    /\ UNCHANGED <<stride, result_set, gen_i, base_addr>>

\* range(n_addresses) is used up: the generator ends
DirectedReturn ==
    /\ gen_pc = "draw"
    /\ gen_i = DirectedCount(stride)
    /\ gen_pc' = "done"
    /\ UNCHANGED <<stride, result_set, result, gen_i, base_addr>>

(* ---------------------------------------------------------------------- *)
(* run_strided_experiments: the sweep over strides                         *)
(* make_memory_model and generate_addresses are arguments: the factory     *)
(* returns a copy of one fresh hierarchy, generate_addresses any sequence  *)
(* of strided positions, the empty one included.                           *)
(* ---------------------------------------------------------------------- *)

RECURSIVE StridesFrom(_, _)

\* a loop that stops before max_stride (`<` for `<=`)
MutStridesFromBelowMax(s, max) ==
    IF s < max THEN <<s>> \o StridesFrom(s * 2, max) ELSE <<>>

\* the loop of generate_strides_sequence, from the current value of stride
StridesFrom(s, max) ==
    IF s <= max THEN <<s>> \o StridesFrom(s * 2, max) ELSE <<>>

\* list(generate_strides_sequence(min_stride, max_stride))
GenerateStridesSequence(min, max) == StridesFrom(min, max)

\* the hierarchies make_memory_model can be: each call returns a fresh copy
SweepModels ==
    {[caches |-> <<CacheModel(1, 2, 1)>>, ram |-> RamModel(2)],
     [caches |-> <<CacheModel(1, 1, 0), CacheModel(2, 2, 1)>>, ram |-> RamModel(1)]}

\* what list(generate_addresses(s)) can be
SweepAddressLists(s) == UNION {[1..k -> {0, s}] : k \in SweepLengths}

\* run_strided_experiments(min_stride, max_stride, make_memory_model,
\* generate_addresses, max_retries), after line 159
InitSweep ==
    /\ min_stride \in 1..MaxMinStride
    /\ max_stride \in 0..MaxSweepStride
    /\ max_retries \in 0..MaxSweepRetries
    /\ strides = GenerateStridesSequence(min_stride, max_stride)
    /\ Len(strides) * max_retries <= MaxSweepTrials
    /\ make_memory_model \in SweepModels
    /\ index = 0
    /\ results = <<>>
    /\ trial = 0
    /\ sweep_pc = "stage"
    /\ raised = "none"
    /\ eps = SweepEps
    /\ n_expected_successes = DefaultExpectedSuccesses
    /\ data = <<>>
    /\ locals = MeanLocals
    /\ mean_pc = "idle"
    /\ returned = <<0, 1>>
    /\ caches = <<>>
    /\ ram = RamModel(0)
    /\ addresses = <<>>

\* the next stage: run_strided_experiment is called, and mean runs up to its loop
StartStage ==
    /\ sweep_pc = "stage"
    /\ index < Len(strides)
    /\ data' = <<>>
    /\ locals' = MeanLocals
    /\ mean_pc' = "loop"
    /\ returned' = <<0, 1>>
    /\ trial' = 0
    /\ sweep_pc' = "pull"
    /\ UNCHANGED <<cacheVars, eps, n_expected_successes, max_retries, min_stride,
                   max_stride, make_memory_model, strides, index, results, raised>>

\* the loop over strides has ended
SweepFinish ==
    /\ sweep_pc = "stage"
    /\ index = Len(strides)
    /\ sweep_pc' = "done"
    /\ UNCHANGED <<cacheVars, meanVars, min_stride, max_stride, make_memory_model,
                   strides, index, results, trial, raised>>

\* a trial that keeps the hierarchy of the trial before it
MutStartTrialKeepModel(addrs) ==
    /\ sweep_pc = "pull"
    /\ trial < max_retries
    /\ trial' = trial + 1
    /\ addresses' = addrs
    /\ caches' = IF trial = 0 THEN make_memory_model.caches ELSE caches
    /\ ram' = IF trial = 0 THEN make_memory_model.ram ELSE ram
    /\ sweep_pc' = "trial"
    /\ UNCHANGED <<meanVars, min_stride, max_stride, make_memory_model, strides,
                   index, results, raised>>

\* mean asks get_penalties for a value: a pass of its loop begins, the addresses
\* are generated and the hierarchy is made (lines 126-128)
StartTrial(addrs) ==
    /\ sweep_pc = "pull"
    /\ trial < max_retries
    /\ trial' = trial + 1
    /\ addresses' = addrs
    /\ caches' = make_memory_model.caches
    /\ ram' = make_memory_model.ram
    /\ sweep_pc' = "trial"
    /\ UNCHANGED <<meanVars, min_stride, max_stride, make_memory_model, strides,
                   index, results, raised>>

\* a trial that yields 0 for an empty address sequence
MutFinishTrialGuardedDivision ==
    /\ sweep_pc = "trial"
    /\ LET run == PerformAccesses(Hierarchy, addresses)
           x == IF addresses = <<>> THEN <<0, 1>> ELSE <<run[2], Len(addresses)>>
           after == MeanBody(locals, x, eps, n_expected_successes)
       IN /\ caches' = run[1].caches
          /\ ram' = run[1].ram
          /\ data' = Append(data, x)
          /\ locals' = after.locals
          /\ mean_pc' = after.pc
          /\ returned' = after.returned
          /\ IF after.pc = "converged"
             THEN /\ results' = Append(results, <<strides[index + 1], after.returned>>)
                  /\ index' = index + 1
                  /\ sweep_pc' = "stage"
             ELSE /\ sweep_pc' = "pull"
                  /\ UNCHANGED <<results, index>>
          /\ raised' = raised
    /\ UNCHANGED <<addresses, eps, n_expected_successes, max_retries, min_stride,
                   max_stride, make_memory_model, strides, trial>>

\* a trial after which mean goes on asking for values though it has converged
MutFinishTrialNoReturn ==
    /\ sweep_pc = "trial"
    /\ IF addresses = <<>>
       THEN /\ raised' = "ZeroDivisionError"
            /\ sweep_pc' = "error"
            /\ UNCHANGED <<caches, ram, data, locals, mean_pc, returned, results, index>>
       ELSE \E run \in {PerformAccesses(Hierarchy, addresses)} :
            \E after \in {MeanBody(locals, <<run[2], Len(addresses)>>, eps,
                                   n_expected_successes)} :
            LET x == <<run[2], Len(addresses)>>
            IN /\ caches' = run[1].caches
               /\ ram' = run[1].ram
               /\ data' = Append(data, x)
               /\ locals' = after.locals
               /\ mean_pc' = after.pc
               /\ returned' = after.returned
               /\ sweep_pc' = "pull"
               /\ UNCHANGED <<results, index>>
               /\ raised' = raised
    /\ UNCHANGED <<addresses, eps, n_expected_successes, max_retries, min_stride,
                   max_stride, make_memory_model, strides, trial>>

\* the trial runs: perform_accesses, the division, the yield, and the pass of
\* mean's loop body on the value (lines 129-130, 100-114); when mean returns,
\* so does run_strided_experiment, and the pair is appended (line 165)
FinishTrial ==
    /\ sweep_pc = "trial"
    /\ IF addresses = <<>>
       THEN /\ raised' = "ZeroDivisionError"
            /\ sweep_pc' = "error"
            /\ UNCHANGED <<caches, ram, data, locals, mean_pc, returned, results, index>>
       ELSE \E run \in {PerformAccesses(Hierarchy, addresses)} :
            \E after \in {MeanBody(locals, <<run[2], Len(addresses)>>, eps,
                                   n_expected_successes)} :
            LET x == <<run[2], Len(addresses)>>
            IN /\ caches' = run[1].caches
               /\ ram' = run[1].ram
               /\ data' = Append(data, x)
               /\ locals' = after.locals
               /\ mean_pc' = after.pc
               /\ returned' = after.returned
               /\ IF after.pc = "converged"
                  THEN /\ results' = Append(results, <<strides[index + 1], after.returned>>)
                       /\ index' = index + 1
                       /\ sweep_pc' = "stage"
                  ELSE /\ sweep_pc' = "pull"
                       /\ UNCHANGED <<results, index>>
               /\ raised' = raised
    /\ UNCHANGED <<addresses, eps, n_expected_successes, max_retries, min_stride,
                   max_stride, make_memory_model, strides, trial>>

\* range(max_retries) is used up: get_penalties ends, mean leaves its loop
\* (lines 131, 115-116), and its value, if it returns one, is appended (line 165)
SweepExhausted ==
    /\ sweep_pc = "pull"
    /\ trial = max_retries
    /\ MeanExhausted
    /\ IF mean_pc' = "failed"
       THEN /\ raised' = "AssertionError"
            /\ sweep_pc' = "error"
            /\ UNCHANGED <<results, index>>
       ELSE /\ results' = Append(results, <<strides[index + 1], returned'>>)
            /\ index' = index + 1
            /\ sweep_pc' = "stage"
            /\ raised' = raised
    /\ UNCHANGED <<cacheVars, min_stride, max_stride, make_memory_model, strides, trial>>

(* ---------------------------------------------------------------------- *)
(* Specifications                                                          *)
(* ---------------------------------------------------------------------- *)

\* the parts of the program a specification does not run
NoCache == caches = <<>> /\ ram = RamModel(0) /\ addresses = <<>>

NoMean ==
    /\ eps = <<1, 1>>
    /\ n_expected_successes = 1
    /\ max_retries = 0
    /\ data = <<>>
    /\ locals = MeanLocals
    /\ mean_pc = "idle"
    /\ returned = <<0, 1>>

NoGen == stride = 1 /\ result_set = {} /\ result = <<>> /\ gen_pc = "idle"

NoDirected == gen_i = 0 /\ base_addr = 0

NoBuild == ctor_pc = "idle" /\ ctor_args = <<>>

NoSweep ==
    /\ min_stride = 1
    /\ max_stride = 0
    /\ make_memory_model = [caches |-> <<>>, ram |-> RamModel(0)]
    /\ strides = <<>>
    /\ index = 0
    /\ results = <<>>
    /\ trial = 0
    /\ sweep_pc = "idle"
    /\ raised = "none"

\* a hierarchy under perform_access
Init == InitCache /\ NoMean /\ NoGen /\ NoDirected /\ NoBuild /\ NoSweep

Next ==
    \E address \in Addresses :
        Access(address) /\ UNCHANGED <<meanVars, genVars, dirVars, buildVars, sweepVars>>

Spec == Init /\ [][Next]_vars

\* a call of mean
InitEstimator == InitMean /\ NoCache /\ NoGen /\ NoDirected /\ NoBuild /\ NoSweep

NextEstimator ==
    \/ \E x \in TrialValues :
          MeanIterate(x) /\ UNCHANGED <<cacheVars, genVars, dirVars, buildVars, sweepVars>>
    \/ MeanExhausted /\ UNCHANGED <<cacheVars, genVars, dirVars, buildVars, sweepVars>>

SpecMean == InitEstimator /\ [][NextEstimator]_vars

\* a call of generate_random_strided_addresses
InitGenerator == InitGen /\ NoCache /\ NoMean /\ NoDirected /\ NoBuild /\ NoSweep

NextGenerator ==
    \/ \E n \in RandRange(stride) :
          GenDraw(n) /\ UNCHANGED <<cacheVars, meanVars, dirVars, buildVars, sweepVars>>
    \/ GenReturn /\ UNCHANGED <<cacheVars, meanVars, dirVars, buildVars, sweepVars>>

SpecRandom == InitGenerator /\ [][NextGenerator]_vars

\* a chain of caches is built, then accessed
InitConstruction == InitBuild /\ NoMean /\ NoGen /\ NoDirected /\ NoSweep

NextConstruction ==
    \/ \E n \in 0..MaxLines, s \in {0} \cup LineSizes, p \in HitPenalties :
          Construct(n, s, p) /\ UNCHANGED <<meanVars, genVars, dirVars, sweepVars>>
    \/ BuildDone /\ UNCHANGED <<meanVars, genVars, dirVars, sweepVars>>
    \/ \E address \in Addresses :
          BuiltAccess(address) /\ UNCHANGED <<meanVars, genVars, dirVars, sweepVars>>

SpecBuild == InitConstruction /\ [][NextConstruction]_vars

\* a call of generate_directed_strided_addresses
InitDirectedGenerator == InitDirected /\ NoCache /\ NoMean /\ NoBuild /\ NoSweep

NextDirectedGenerator ==
    \/ \E b \in RandRange(2 * stride) :
          DirectedDraw(b) /\ UNCHANGED <<cacheVars, meanVars, buildVars, sweepVars>>
    \/ DirectedSecond /\ UNCHANGED <<cacheVars, meanVars, buildVars, sweepVars>>
    \/ DirectedReturn /\ UNCHANGED <<cacheVars, meanVars, buildVars, sweepVars>>

SpecDirected == InitDirectedGenerator /\ [][NextDirectedGenerator]_vars

\* a run of run_strided_experiments
InitExperiments == InitSweep /\ NoGen /\ NoDirected /\ NoBuild

NextExperiments ==
    \/ StartStage /\ UNCHANGED <<genVars, dirVars, buildVars>>
    \/ /\ sweep_pc = "pull"
       /\ \E addrs \in SweepAddressLists(strides[index + 1]) :
             StartTrial(addrs) /\ UNCHANGED <<genVars, dirVars, buildVars>>
    \/ FinishTrial /\ UNCHANGED <<genVars, dirVars, buildVars>>
    \/ SweepExhausted /\ UNCHANGED <<genVars, dirVars, buildVars>>
    \/ SweepFinish /\ UNCHANGED <<genVars, dirVars, buildVars>>

SpecSweep == InitExperiments /\ [][NextExperiments]_vars

\* the interpreter keeps running the program until it ends
SpecSweepFair == SpecSweep /\ WF_vars(NextExperiments)

(* ---------------------------------------------------------------------- *)
(* Reading the hierarchy's history                                         *)
(* ---------------------------------------------------------------------- *)

Range(q) == {q[j] : j \in DOMAIN q}

NoDuplicates(q) == \A j, k \in DOMAIN q : j # k => q[j] # q[k]

\* the hierarchy as it was constructed, before any access
Fresh ==
    [caches |-> [i \in DOMAIN caches |->
                    CacheModel(caches[i].n_lines, caches[i].line_size,
                               caches[i].hit_penalty)],
     ram |-> RamModel(ram.access_penalty)]

\* the hierarchy after the first k accesses of the history
Replay(k) == PerformAccesses(Fresh, SubSeq(addresses, 1, k))[1]

\* the line ids the root computed for the accesses of the history
RootLines == [j \in DOMAIN addresses |-> addresses[j] \div caches[1].line_size]

\* the step is a perform_access on the root
Accessed == addresses' # addresses

\* the address of that access
NewAddress == addresses'[Len(addresses')]

\* cache level i receives the access of address a: every level above it misses
Receives(i, a) ==
    \A j \in 1..(i - 1) : (a \div caches[j].line_size) \notin caches[j].cached_lines_set

\* the access during which line l, resident at the root, was admitted
AdmittedAt(l) ==
    CHOOSE j \in DOMAIN addresses :
        /\ RootLines[j] = l
        /\ l \notin Replay(j - 1).caches[1].cached_lines_set
        /\ \A k \in (j + 1)..Len(addresses) :
              RootLines[k] = l => l \in Replay(k - 1).caches[1].cached_lines_set

AllPenaltiesNonNegative ==
    /\ ram.access_penalty >= 0
    /\ \A i \in DOMAIN caches : caches[i].hit_penalty >= 0

(* ---------------------------------------------------------------------- *)
(* Claims                                                                  *)
(* ---------------------------------------------------------------------- *)

\* C1: in every reachable state of every cache level, queue and set have the
\* same size, at most n_lines; the queue holds no line id twice; and the set
\* is exactly the set of the queue's elements.
C1_QueueSetInvariant ==
    \A i \in DOMAIN caches :
        LET c == caches[i] IN
        /\ Len(c.cached_lines_queue) = Cardinality(c.cached_lines_set)
        /\ Len(c.cached_lines_queue) <= c.n_lines
        /\ NoDuplicates(c.cached_lines_queue)
        /\ c.cached_lines_set = Range(c.cached_lines_queue)

\* C1 witness: a full level that has evicted a line it was given
C1_Witness ==
    /\ Len(caches[1].cached_lines_queue) = caches[1].n_lines
    /\ \E j \in DOMAIN addresses : RootLines[j] \notin caches[1].cached_lines_set
    /\ Len(caches) = 2
    /\ Len(caches[2].cached_lines_queue) = caches[2].n_lines

\* a hit at any level leaves that level's queue and set as they were
C2_HitKeepsQueue ==
    \A i \in DOMAIN caches :
        LET line_id == NewAddress \div caches[i].line_size IN
        (Receives(i, NewAddress) /\ line_id \in caches[i].cached_lines_set)
            => /\ caches'[i].cached_lines_queue = caches[i].cached_lines_queue
               /\ caches'[i].cached_lines_set = caches[i].cached_lines_set

\* a miss on a full root evicts exactly the resident line admitted earliest
C2_EvictsEarliestAdmitted ==
    LET c == caches[1]
        line_id == NewAddress \div c.line_size
        evicted == c.cached_lines_set \ caches'[1].cached_lines_set
    IN IF line_id \notin c.cached_lines_set /\ Len(c.cached_lines_queue) = c.n_lines
       THEN /\ Cardinality(evicted) = 1
            /\ \A e \in evicted : \A r \in c.cached_lines_set :
                  AdmittedAt(e) <= AdmittedAt(r)
       ELSE evicted = {}

\* the root saw the line accesses [A, B, A, C], with A, B, C distinct
C2_ABAC ==
    /\ Len(addresses) = 4
    /\ RootLines[1] = RootLines[3]
    /\ RootLines[1] # RootLines[2]
    /\ RootLines[4] \notin {RootLines[1], RootLines[2]}

\* with n_lines = 2, after [A, B, A, C] exactly B and C are resident
C2_Example ==
    (caches[1].n_lines = 2 /\ C2_ABAC)
        => /\ caches[1].cached_lines_queue = <<RootLines[2], RootLines[4]>>
           /\ caches[1].cached_lines_set = {RootLines[2], RootLines[4]}

\* C2: re-accessing a resident line never changes the eviction order: a hit
\* leaves cached_lines_queue unchanged, the line evicted is always the resident
\* line admitted earliest, and with n_lines = 2 the accesses [A, B, A, C] evict
\* A and leave B and C resident.
C2_HitKeepsEvictionOrder ==
    [][Accessed => /\ C2_HitKeepsQueue
                   /\ C2_EvictsEarliestAdmitted
                   /\ C2_Example']_vars

\* C2 witness: the accesses [A, B, A, C] on a root of two lines, C just admitted
C2_Witness ==
    /\ caches[1].n_lines = 2
    /\ C2_ABAC
    /\ RootLines[4] \in caches[1].cached_lines_set
    /\ RootLines[1] \notin caches[1].cached_lines_set

\* the first k+1 accesses of the root, k = n_lines, are to pairwise distinct lines
C3_DistinctPrefix(len) ==
    \A j, k \in 1..len : j # k => RootLines[j] # RootLines[k]

\* C3: with capacity k = n_lines and k+1 pairwise distinct lines accessed
\* first, the first line is resident through the first k accesses, is absent
\* from queue and set after the (k+1)-th, and stays absent as long as no later
\* access maps to it.
C3_FifoEviction ==
    LET c == caches[1]
        k == c.n_lines
        n == Len(addresses)
        resident(l) == l \in c.cached_lines_set /\ l \in Range(c.cached_lines_queue)
        absent(l) == l \notin c.cached_lines_set /\ l \notin Range(c.cached_lines_queue)
    IN /\ (1 <= n /\ n <= k /\ C3_DistinctPrefix(n)) => resident(RootLines[1])
       /\ (n >= k + 1 /\ C3_DistinctPrefix(k + 1)
              /\ \A j \in (k + 2)..n : RootLines[j] # RootLines[1])
            => absent(RootLines[1])

\* C3 witness: the first line was evicted by the (k+1)-th access, k = 2, and an
\* access later it is still absent
C3_Witness ==
    /\ caches[1].n_lines = 2
    /\ Len(addresses) = 4
    /\ C3_DistinctPrefix(3)
    /\ RootLines[4] # RootLines[1]
    /\ RootLines[1] \notin caches[1].cached_lines_set

\* CacheModel(n_lines=1, line_size=1, hit_penalty=1) over RamModel(100) was
\* given the addresses [0, 0, 1, 0]
C4_Scenario ==
    /\ Len(caches) = 1
    /\ caches[1].n_lines = 1
    /\ caches[1].line_size = 1
    /\ caches[1].hit_penalty = 1
    /\ ram.access_penalty = 100
    /\ addresses = <<0, 0, 1, 0>>

\* C4: for CacheModel(1, 1, 1) over RamModel(100), perform_accesses on
\* [0, 0, 1, 0] returns 301.
C4_EndToEnd301 ==
    C4_Scenario
        => /\ GetTotalPenalty(Hierarchy, 1) = 301
           /\ PerformAccesses(Fresh, <<0, 0, 1, 0>>)[2] = 301

\* C4 witness: the scenario was run to its end
C4_Witness ==
    /\ C4_Scenario
    /\ caches[1].cached_lines_queue = <<0>>
    /\ ram.total_penalty = 300

\* C5: when perform_access(b) on the root immediately follows
\* perform_access(a) with a div line_size = b div line_size, the second access
\* raises the root's get_total_penalty() by exactly hit_penalty and performs no
\* access on next_memory.
C5_SameLineTwiceHits ==
    [][(/\ Accessed
        /\ Len(addresses) >= 1
        /\ addresses[Len(addresses)] \div caches[1].line_size
              = NewAddress \div caches[1].line_size)
         => /\ GetTotalPenalty([caches |-> caches', ram |-> ram'], 1)
                  = GetTotalPenalty(Hierarchy, 1) + caches[1].hit_penalty
            /\ caches'[1].total_penalty
                  = caches[1].total_penalty + caches[1].hit_penalty
            /\ ram' = ram
            /\ \A i \in 2..Len(caches) : caches'[i] = caches[i]]_vars

\* C5 witness: two different addresses of one line accessed in succession on a
\* root of one line, right after another line was resident
C5_Witness ==
    LET n == Len(addresses) IN
    /\ n >= 3
    /\ caches[1].n_lines = 1
    /\ caches[1].hit_penalty = 1
    /\ addresses[n] # addresses[n - 1]
    /\ RootLines[n] = RootLines[n - 1]
    /\ RootLines[n - 2] # RootLines[n]
    /\ caches[1].total_penalty = 1

\* C9: with no negative penalty in the hierarchy, the root's
\* get_total_penalty() is after each perform_access at least what it was
\* before it.
C9_TotalNeverDecreases ==
    [][(Accessed /\ AllPenaltiesNonNegative)
         => GetTotalPenalty([caches |-> caches', ram |-> ram'], 1)
               >= GetTotalPenalty(Hierarchy, 1)]_vars

\* C9 witness: hits at both cache levels and misses down to the RamModel have
\* been paid for
C9_Witness ==
    /\ AllPenaltiesNonNegative
    /\ Len(caches) = 2
    /\ caches[1].total_penalty > 0
    /\ caches[2].total_penalty > 0
    /\ ram.total_penalty > 0

\* C10 as stated: one CacheModel over a RamModel, n accesses with no address
\* repeated, and the RamModel's total_penalty is n * p.
C10_NoRepeatedAddress ==
    (Len(caches) = 1 /\ NoDuplicates(addresses))
        => ram.total_penalty = Len(addresses) * ram.access_penalty

\* C10 amended: one CacheModel over a RamModel, n accesses of which no two map
\* to the same line id (address div line_size), and the RamModel's
\* total_penalty is n * p.
C10_NoRepeatedLine ==
    (Len(caches) = 1 /\ NoDuplicates(RootLines))
        => ram.total_penalty = Len(addresses) * ram.access_penalty

\* C10 witness: three accesses to three lines of a cache of one line
C10_Witness ==
    /\ Len(caches) = 1
    /\ caches[1].n_lines = 1
    /\ Len(addresses) = 3
    /\ NoDuplicates(RootLines)
    /\ ram.total_penalty = 300

\* every value mean has taken from the stream is the constant 7
C6_AllSevens == mean_pc # "idle" /\ \A j \in DOMAIN data : data[j] = 7

\* C6 as stated: on a stream that always yields 7, mean returns exactly 7 after
\* consuming no more than n_expected_successes trials, for every eps > 0.
C6_WithinThreshold ==
    (C6_AllSevens /\ mean_pc = "converged")
        => RatEq(returned, <<7, 1>>) /\ Len(data) <= n_expected_successes

\* the number of trials mean consumes from a stream of sevens
C6_TrialsNeeded ==
    IF RatLess(<<7, 1>>, eps) THEN n_expected_successes ELSE n_expected_successes + 1

\* C6 amended: on a stream that always yields 7, mean returns exactly 7 after
\* consuming exactly n_expected_successes + 1 trials when eps <= 7 (the first
\* running mean, 7, is compared with the initial previous mean 0 and is no
\* success) and exactly n_expected_successes trials when eps > 7.
C6_WithinThresholdPlusOne ==
    C6_AllSevens
        => /\ mean_pc = "loop" => Len(data) < C6_TrialsNeeded
           /\ mean_pc = "converged"
                 => RatEq(returned, <<7, 1>>) /\ Len(data) = C6_TrialsNeeded
           /\ mean_pc = "exhausted" => RatEq(returned, <<7, 1>>)

\* C6 witness: with eps = 1 and n_expected_successes = 3, mean has converged on
\* a stream of sevens, after four trials
C6_Witness ==
    /\ C6_AllSevens
    /\ mean_pc = "converged"
    /\ eps = <<1, 1>>
    /\ n_expected_successes = 3
    /\ Len(data) = 4
    /\ returned = <<28, 4>>

RECURSIVE SumSeq(_)

SumSeq(q) == IF q = <<>> THEN 0 ELSE Head(q) + SumSeq(Tail(q))

\* C7: when the stream ends after max_retries >= 1 trials without the success
\* counter having reached n_expected_successes, mean returns without error, and
\* returns the running mean over all the trials consumed.
C7_ExhaustedReturnsRunningMean ==
    /\ mean_pc = "exhausted"
          => /\ Len(data) = max_retries
             /\ max_retries >= 1
             /\ RatEq(returned, <<SumSeq(data), Len(data)>>)
    /\ mean_pc = "failed" => max_retries = 0

\* C7 witness: the stream ended after three or more trials of differing values,
\* the last of them a success short of the threshold
C7_Witness ==
    /\ mean_pc = "exhausted"
    /\ Len(data) >= 3
    /\ data[Len(data)] # data[1]
    /\ locals.n_successes >= 1
    /\ locals.n_successes < n_expected_successes

\* C8: the sequence generate_random_strided_addresses returns holds no address
\* twice.
C8_NoDuplicateAddress == gen_pc = "done" => NoDuplicates(result)

\* C11: mean fails with its assertion exactly when the stream produces no
\* value: it fails when the stream ends with nothing consumed, and never once a
\* value has been consumed.
C11_FailsIffNoData ==
    /\ mean_pc = "failed" => (data = <<>> /\ max_retries = 0)
    /\ (mean_pc \in {"converged", "exhausted"}) => Len(data) >= 1
    /\ (mean_pc = "loop" /\ max_retries = 0) => (ENABLED MeanExhausted /\ locals.n = 0)

\* C11 witness: mean failed on an empty stream
C11_Witness == mean_pc = "failed" /\ data = <<>> /\ max_retries = 0

\* the running mean of the first j values of data; 0 before the first
C18_RunningMean(j) == IF j = 0 THEN <<0, 1>> ELSE <<SumSeq(SubSeq(data, 1, j)), j>>

\* trial j is a success: its running mean is within eps of the one before it
C18_Success(j) ==
    RatLess(RatAbsDiff(C18_RunningMean(j - 1), C18_RunningMean(j)), eps)

\* the length of the run of successes that ends with trial j
C18_RunLength(j) ==
    IF \A k \in 1..j : C18_Success(k)
    THEN j
    ELSE j - (CHOOSE k \in 1..j : ~C18_Success(k) /\ \A m \in (k + 1)..j : C18_Success(m))

\* C18: with the previous running mean seeded to 0, n_successes after each
\* trial is the length of the current run of trials whose running mean is
\* within eps of the previous one; mean returns through the converged path
\* exactly at the first trial where that length reaches n_expected_successes,
\* and returns the running mean at that trial.
C18_CounterIsRunLength ==
    mean_pc \in {"loop", "converged", "exhausted"}
        => LET n == Len(data) IN
           /\ locals.n_successes = C18_RunLength(n)
           /\ \A j \in 0..(n - 1) : C18_RunLength(j) < n_expected_successes
           /\ mean_pc = "converged"
                 <=> (n >= 1 /\ C18_RunLength(n) >= n_expected_successes)
           /\ mean_pc = "converged"
                 => /\ C18_RunLength(n) = n_expected_successes
                    /\ RatEq(returned, C18_RunningMean(n))

\* C18 witness: mean converged after a success, a failure that reset the
\* counter, and then n_expected_successes = 2 successes
C18_Witness ==
    /\ mean_pc = "converged"
    /\ n_expected_successes = 2
    /\ Len(data) = 5
    /\ ~C18_Success(1)
    /\ C18_Success(2)
    /\ ~C18_Success(3)

\* level i had perform_access called on it in this step
C17_Called(i) == caches'[i].received # caches[i].received

\* what next_memory of level i received before and after the step
C17_NextReceived(i) ==
    IF i = Len(caches) THEN ram.received ELSE caches[i + 1].received

C17_NextReceivedAfter(i) ==
    IF i = Len(caches) THEN ram'.received ELSE caches'[i + 1].received

\* C17: each CacheModel.perform_access(address) does exactly one of two things,
\* decided by whether address div line_size was resident before: on a hit it
\* adds hit_penalty to its own total_penalty and calls nothing below (every
\* lower level is unchanged); on a miss it leaves its own total_penalty
\* unchanged and calls next_memory.perform_access once, with the byte address.
C17_HitOrForward ==
    [][Accessed =>
        /\ C17_Called(1)
        /\ \A i \in DOMAIN caches :
              IF C17_Called(i)
              THEN LET c == caches[i]
                       hit == (NewAddress \div c.line_size) \in c.cached_lines_set
                   IN /\ caches'[i].received = Append(c.received, NewAddress)
                      /\ IF hit
                         THEN /\ caches'[i].total_penalty = c.total_penalty + c.hit_penalty
                              /\ \A j \in (i + 1)..Len(caches) : caches'[j] = caches[j]
                              /\ ram' = ram
                         ELSE /\ caches'[i].total_penalty = c.total_penalty
                              /\ C17_NextReceivedAfter(i)
                                    = Append(C17_NextReceived(i), NewAddress)
              ELSE caches'[i] = caches[i]]_vars

\* C17 witness: an address that is not its own line id at the root has missed
\* at both levels and reached the RamModel, and a later access hit the root
C17_Witness ==
    /\ Len(caches) = 2
    /\ caches[1].line_size = 2
    /\ caches[1].hit_penalty = 1
    /\ caches[1].hits >= 1
    /\ caches[2].hits >= 1
    /\ \E j \in DOMAIN ram.received : ram.received[j] = 2

RECURSIVE C20_HitPenalties(_)

\* the sum over cache levels i.. of hits * hit_penalty
C20_HitPenalties(i) ==
    IF i > Len(caches)
    THEN 0
    ELSE caches[i].hits * caches[i].hit_penalty + C20_HitPenalties(i + 1)

\* C20: for every CacheModel the accesses it received are its hits plus the
\* accesses its next_memory received; the RamModel's total_penalty is
\* access_penalty times the accesses it received; and the root's
\* get_total_penalty() is the sum over cache levels of hits * hit_penalty plus
\* access_penalty times the accesses that reached the RamModel.
C20_AccountingIdentity ==
    /\ caches[1].received = addresses
    /\ \A i \in DOMAIN caches :
          Len(caches[i].received) = caches[i].hits + Len(C17_NextReceived(i))
    /\ ram.total_penalty = ram.access_penalty * Len(ram.received)
    /\ GetTotalPenalty(Hierarchy, 1)
          = C20_HitPenalties(1) + ram.access_penalty * Len(ram.received)

\* C20 witness: a chain of two caches with hits at both levels and accesses
\* that reached the RamModel
C20_Witness ==
    /\ Len(caches) = 2
    /\ caches[1].hits >= 1 /\ caches[1].hit_penalty = 1
    /\ caches[2].hits >= 1 /\ caches[2].hit_penalty = 1
    /\ Len(ram.received) >= 2

\* C12: constructing a CacheModel with n_lines = 0 or line_size = 0 fails at
\* construction, so no CacheModel with zero capacity or zero line size exists,
\* and none ever receives perform_access.
C12_ZeroFailsAtConstruction ==
    /\ \A i \in DOMAIN caches : caches[i].n_lines # 0 /\ caches[i].line_size # 0
    /\ ctor_pc = "failed" <=> (ctor_args # <<>> /\ (ctor_args[1] = 0 \/ ctor_args[2] = 0))
    /\ ctor_pc = "failed" => (addresses = <<>> /\ ~ENABLED NextConstruction)

\* C12 witness: a first CacheModel was built, and the call for the one in front
\* of it, with line_size = 0 and n_lines = 1, failed
C12_Witness ==
    /\ ctor_pc = "failed"
    /\ Len(caches) = 1
    /\ ctor_args[1] = 1
    /\ ctor_args[2] = 0

(* ---------------------------------------------------------------------- *)
(* The sweep                                                               *)
(* ---------------------------------------------------------------------- *)

RECURSIVE Pow2(_)

\* 2^i
Pow2(i) == IF i = 0 THEN 1 ELSE 2 * Pow2(i - 1)

\* C15: for min_stride >= 1 the strides are exactly the values
\* min_stride * 2^i that are <= max_stride, in ascending order, max_stride
\* itself included when it is one of them; and results holds one pair per
\* finished stage, the pair of stage j carrying the j-th stride.
C15_StridesAndResultsInOrder ==
    min_stride >= 1 =>
        /\ \A k \in 1..Len(strides) :
              /\ strides[k] = min_stride * Pow2(k - 1)
              /\ strides[k] <= max_stride
        /\ min_stride * Pow2(Len(strides)) > max_stride
        /\ \A j, k \in 1..Len(strides) : j < k => strides[j] < strides[k]
        /\ Len(results) = index
        /\ index <= Len(strides)
        /\ \A j \in 1..Len(results) : results[j][1] = strides[j]

C15_Witness ==
    /\ sweep_pc = "done"
    /\ Len(results) >= 3
    /\ min_stride >= 2
    /\ strides[Len(strides)] = max_stride

\* C13: a trial whose address sequence is empty raises ZeroDivisionError:
\* the estimator gets no value from it, no pair is appended for the stride,
\* and after an error the program takes no further step.
C13_EmptyTrialAborts ==
    [][/\ sweep_pc # "error"
       /\ (sweep_pc = "trial" /\ addresses = <<>>) =>
             /\ raised' = "ZeroDivisionError"
             /\ sweep_pc' = "error"
             /\ data' = data
             /\ locals' = locals
             /\ mean_pc' = "loop"
             /\ results' = results
             /\ Len(results') < Len(strides)
             /\ \A j \in 1..Len(results') : results'[j][1] # strides[index' + 1]]_vars

C13_Witness ==
    /\ raised = "ZeroDivisionError"
    /\ sweep_pc = "error"
    /\ addresses = <<>>
    /\ Len(results) >= 1
    /\ Len(data) >= 1

\* C14: when a trial starts, every cache level has an empty queue and set and
\* every level's total_penalty is 0; and the value a trial yields is the
\* penalty of its own address sequence on an untouched hierarchy, divided by
\* the length of the sequence.
C14_TrialOnFreshHierarchy ==
    /\ sweep_pc = "trial" =>
          /\ \A i \in 1..Len(caches) :
                /\ caches[i].cached_lines_queue = <<>>
                /\ caches[i].cached_lines_set = {}
                /\ caches[i].total_penalty = 0
          /\ ram.total_penalty = 0
    /\ (sweep_pc \in {"pull", "stage", "done"} /\ data # <<>>) =>
          data[Len(data)] =
              <<PerformAccesses(make_memory_model, addresses)[2], Len(addresses)>>

C14_Witness ==
    /\ sweep_pc = "pull"
    /\ index >= 1
    /\ Len(data) >= 2
    /\ data[1][1] > 0
    /\ data[Len(data)][1] > 0

\* C19: run_strided_experiment terminates; it runs at most max_retries
\* trials; a trial starts only when mean, still in its loop, has consumed
\* every earlier one; and once mean has returned no further trial starts.
\* a run_strided_experiment that has started returns or raises
C19_Live == (sweep_pc \in {"pull", "trial"}) ~> (sweep_pc \in {"stage", "error"})

C19_ExperimentTerminates ==
    /\ C19_Live
    /\ [](trial <= max_retries /\ Len(data) <= trial)
    /\ [][(trial' = trial + 1 \/ addresses' # addresses \/ sweep_pc' = "trial") =>
             /\ mean_pc = "loop"
             /\ sweep_pc = "pull"
             /\ Len(data) = trial
             /\ trial < max_retries]_vars

C19_Witness ==
    /\ mean_pc = "converged"
    /\ sweep_pc = "stage"
    /\ trial < max_retries
    /\ Len(data) = trial
    /\ Len(results) = 1

(* ---------------------------------------------------------------------- *)
(* The directed generator                                                  *)
(* ---------------------------------------------------------------------- *)

\* the number of strided positions in [0, ARRAY_SIZE)
C16_StridedPositions == Cardinality({a \in 0..(ARRAY_SIZE - 1) : a % stride = 0})

\* L = min(MAX_ADDRESSES // 2, number of strided positions)
C16_L ==
    IF MAX_ADDRESSES \div 2 < C16_StridedPositions
    THEN MAX_ADDRESSES \div 2
    ELSE C16_StridedPositions

\* C16: generate_directed_strided_addresses(stride) yields exactly 2 * L
\* addresses; the element at position 2i (counted from 0) is a multiple of
\* 2 * stride in [0, ARRAY_SIZE), and the one after it is that plus stride.
C16_PairsOfBaseAndNeighbour ==
    /\ gen_pc = "done" => Len(result) = 2 * C16_L
    /\ gen_pc \in {"draw", "second", "done"} =>
          /\ Len(result) <= 2 * C16_L
          /\ \A i \in 0..(C16_L - 1) :
                /\ 2 * i + 1 <= Len(result) =>
                      /\ result[2 * i + 1] % (2 * stride) = 0
                      /\ result[2 * i + 1] >= 0
                      /\ result[2 * i + 1] < ARRAY_SIZE
                /\ 2 * i + 2 <= Len(result) =>
                      result[2 * i + 2] = result[2 * i + 1] + stride

C16_Witness ==
    /\ gen_pc = "done"
    /\ Len(result) = 6
    /\ result[3] > 0
    /\ result[5] # result[3]

====
